---- MODULE Spec2Model ----
(***************************************************************************)
(* EchoTrace: the four monitors (monitors.py), the score aggregation of    *)
(* EchoTrace.collect_metrics and the loop of EchoTrace.run (echotrace.py), *)
(* the sound engine (sound_engine.py) and main (__main__.py).              *)
(*                                                                         *)
(* Python floats are held as fixed-point integers:                         *)
(*   - anomaly scores, amplitudes and waveform samples in 1/1000 (Milli);  *)
(*   - cpu_percent and memory_percent in whole percent;                    *)
(*   - network and disk byte rates in units of 1e-6 bytes/s, so that the   *)
(*     code's 1e-6 guard is the integer Epsilon = 1;                       *)
(*   - timing intervals in 0.1 s, jitter in 1/1000 s.                      *)
(* A history entry keeps the fields of the metrics dict that the scorers   *)
(* and collect_metrics read.                                               *)
(***************************************************************************)
EXTENDS Integers, Sequences, FiniteSets, TLC

VARIABLES
    cpu_history,        \* CPUMonitor.history
    network_history,    \* NetworkMonitor.history
    sensor_history,     \* SensorMonitor.history
    timing_history,     \* TimingMonitor.history
    update_intervals,   \* TimingMonitor.update_intervals
    last_net_io,        \* NetworkMonitor.last_net_io
    last_disk_io,       \* SensorMonitor.last_disk_io
    combined,           \* what the last collect_metrics call produced
    spikes,             \* number of non-nominal telemetry readings so far
    call,               \* the sound engine call to be made, with its arguments
    sound,              \* what the sound engine call produced
    rng,                \* position of the process-wide random source
    wav,                \* the WAV file written by save_audio
    sample_interval,    \* EchoTrace.sample_interval
    sound_duration,     \* EchoTrace.sound_duration
    run_duration,       \* run's duration argument: <<>> for None, <<d>> for d
    output_file,        \* run's output_file argument: <<>> for None
    pc,                 \* position of the process in run
    running,            \* EchoTrace.running
    sample_count,       \* EchoTrace.sample_count
    sound_history,      \* EchoTrace.sound_history
    elapsed,            \* time.time() - start_time
    error,              \* the exception caught by run's except clause, if any
    interrupted,        \* whether run's signal handler has been called
    exit_code,          \* what main returned to sys.exit: <<>> before it returns
    before_run          \* number of run calls so far, and sample_count and
                        \* sound_history as they were at the latest call

monitorVars == <<cpu_history, network_history, sensor_history, timing_history,
                 update_intervals, last_net_io, last_disk_io, combined, spikes>>

soundVars == <<call, sound, rng, wav>>

runVars == <<sample_interval, sound_duration, run_duration, output_file, pc, running,
             sample_count, sound_history, elapsed, error, interrupted, exit_code,
             before_run>>

vars == <<monitorVars, soundVars, runVars>>

----------------------------------------------------------------------------
(* Bounds of the model *)

\* history_size handed to the monitors (the code's default is 100)
HistorySize == 11
\* how many telemetry readings of a behaviour may leave their nominal value
MaxSpikes == 1
\* period of the random source
RngPeriod == 3
\* longest metrics list handed to generate_soundscape
MaxRecords == 2
\* number of ticks after which run starts no further tick
MaxTicks == 11
\* number of run calls made on one EchoTrace
MaxRuns == 2
\* number of ticks over all the run calls made on one EchoTrace
MaxRunsTicks == 3

(* Program constants *)

Window == 10
IntervalsMaxLen == 50
Milli == 1000
Epsilon == 1

----------------------------------------------------------------------------
(* Telemetry the platform can deliver (psutil and the clock) *)

CpuNominal == 20
CpuSpikes == {100}
\* <<bytes_sent delta, bytes_recv delta>> between two reads of the counters
NetIoNominal == <<0, 0>>
NetIoSpikes == {<<5, 0>>, <<0, -10>>, <<0, -20>>}
\* time.time() difference between two updates of the network and sensor
\* monitors, in ticks of the sampling loop; 0 is a clock that did not advance
TimeDeltaNominal == 1
TimeDeltaSpikes == {0}
MemoryNominal == 40
MemorySpikes == {100}
\* <<read_bytes delta, write_bytes delta>>
DiskIoNominal == <<0, 0>>
DiskIoSpikes == {<<4, 0>>}
\* interval between two updates of the timing monitor, in 0.1 s
IntervalNominal == 1
IntervalSpikes == {300}

----------------------------------------------------------------------------
(* Arithmetic helpers *)

Min(a, b) == IF a <= b THEN a ELSE b
Max(a, b) == IF a >= b THEN a ELSE b
Abs(a) == IF a < 0 THEN -a ELSE a

\* Python's a / b on floats, truncated to the fixed-point grid (floor)
FloorDiv(a, b) == IF b > 0 THEN a \div b ELSE (-a) \div (-b)

RECURSIVE SqrtSearch(_, _, _)
SqrtSearch(x, lo, hi) ==
    IF lo >= hi THEN lo
    ELSE LET mid == (lo + hi + 1) \div 2
         IN IF mid * mid <= x THEN SqrtSearch(x, mid, hi)
                              ELSE SqrtSearch(x, lo, mid - 1)

\* x ** 0.5 on the fixed-point grid: the largest r with r*r <= x
ISqrt(x) == SqrtSearch(x, 0, Min(x, 46340))

RECURSIVE SumTo(_, _)
SumTo(s, i) == IF i = 0 THEN 0 ELSE s[i] + SumTo(s, i - 1)

\* sum(s)
SeqSum(s) == SumTo(s, Len(s))

\* list(history) without the slice: every entry held
WholeList(s, n) == s

\* list(history)[-n:]
LastN(s, n) == SubSeq(s, Max(1, Len(s) - n + 1), Len(s))

\* sum((x - avg) ** 2 for x in values) * len(values)**2, with avg the mean
SqDev(values) ==
    LET n == Len(values)
        total == SeqSum(values)
    IN SeqSum([i \in 1..n |-> (n * values[i] - total) * (n * values[i] - total)])

----------------------------------------------------------------------------
(* monitors.py *)

\* a plain list in place of the bounded deque: nothing is ever evicted
ListAppend(d, x, maxlen) == Append(d, x)

\* collections.deque(maxlen=maxlen).append(x)
DequeAppend(d, x, maxlen) ==
    IF maxlen = 0 THEN <<>>
    ELSE IF Len(d) >= maxlen THEN Append(Tail(d), x)
    ELSE Append(d, x)

\* the sample stored twice by one update
BaseUpdateTwice(history, metrics) ==
    DequeAppend(DequeAppend(history, metrics, HistorySize), metrics, HistorySize)

\* BaseMonitor.update: history.append(metrics)
BaseUpdate(history, metrics) == DequeAppend(history, metrics, HistorySize)

\* the CPU scorer without the warm-up return: it scores whatever it has
CPUScoreNoWarmup(history) ==
    IF Len(history) < 2 THEN 0
    ELSE LET recent == LastN(history, Window)
             recent_values == [i \in 1..Len(recent) |-> recent[i].cpu_percent]
             n == Len(recent_values)
         IN Min(ISqrt((400 * SqDev(recent_values)) \div (n * n * n)), Milli)

\* CPUMonitor.get_anomaly_score, in Milli
CPUGetAnomalyScore(history) ==
    IF Len(history) < Window THEN 0
    ELSE LET recent == LastN(history, Window)
             recent_values == [i \in 1..Len(recent) |-> recent[i].cpu_percent]
             n == Len(recent_values)
             \* variance = SqDev / n^3, std_dev = variance ** 0.5,
             \* std_dev / 50 in Milli = sqrt(400 * SqDev / n^3)
             scaled == ISqrt((400 * SqDev(recent_values)) \div (n * n * n))
         IN Min(scaled, Milli)

\* NetworkMonitor.get_anomaly_score raises ZeroDivisionError: avg + 1e-6 = 0
NetworkScoreRaises(history) ==
    /\ Len(history) >= Window
    /\ LET recent == LastN(history, Window)
           recent_values == [i \in 1..Len(recent) |-> recent[i].total_bytes_rate]
           n == Len(recent_values)
           total == SeqSum(recent_values)
       IN /\ total # 0
          /\ total + n * Epsilon = 0

\* NetworkMonitor.get_anomaly_score, in Milli (where it does not raise)
NetworkGetAnomalyScore(history) ==
    IF Len(history) < Window THEN 0
    ELSE LET recent == LastN(history, Window)
             recent_values == [i \in 1..Len(recent) |-> recent[i].total_bytes_rate]
             n == Len(recent_values)
             total == SeqSum(recent_values)
         IN IF total = 0 THEN 0
            ELSE \* std_dev = sqrt(SqDev / n^3), avg + 1e-6 = (total + n) / n,
                 \* cv in Milli = sqrt(10^6 * SqDev / n) / (total + n)
                 LET std_scaled == 10 * ISqrt((10000 \div n) * SqDev(recent_values))
                     cv == FloorDiv(std_scaled, total + n * Epsilon)
                 IN Min(cv, Milli)

\* SensorMonitor.get_anomaly_score, in Milli
SensorGetAnomalyScore(history) ==
    IF Len(history) < Window THEN 0
    ELSE LET recent == LastN(history, Window)
             n == Len(recent)
             recent_memory == [i \in 1..n |-> recent[i].memory_percent]
             \* avg_memory / 100.0 in Milli
             memory_score == (SeqSum(recent_memory) * 10) \div n
             recent_disk == [i \in 1..n |->
                                recent[i].disk_read_rate + recent[i].disk_write_rate]
             total_disk == SeqSum(recent_disk)
             disk_score ==
                 IF total_disk > 0
                 THEN Min(FloorDiv(10 * ISqrt((10000 \div n) * SqDev(recent_disk)),
                                   total_disk + n * Epsilon),
                          Milli)
                 ELSE 0
             anomaly == (memory_score * 5 + disk_score * 5) \div 10
         IN Min(anomaly, Milli)

\* the jitter of TimingMonitor.get_metrics in 1/1000 s, intervals in 0.1 s
Jitter(intervals) ==
    IF Len(intervals) > 1
    THEN LET n == Len(intervals)
             total == SeqSum(intervals)
             \* sum(abs(i - avg)) / n = sum(abs(n*i - total)) / n^2
             dev == SeqSum([i \in 1..n |-> Abs(n * intervals[i] - total)])
         IN (100 * dev) \div (n * n)
    ELSE 0

\* TimingMonitor.get_anomaly_score, in Milli
TimingGetAnomalyScore(history) ==
    IF Len(history) < Window THEN 0
    ELSE LET recent == LastN(history, Window)
             recent_jitter == [i \in 1..Len(recent) |-> recent[i].jitter]
             \* avg_jitter / 1.0 in Milli
             avg_jitter == SeqSum(recent_jitter) \div Len(recent_jitter)
         IN Min(avg_jitter, Milli)

\* CPUMonitor.get_metrics
CPUGetMetrics(cpu_percent) == [cpu_percent |-> cpu_percent]

\* NetworkMonitor.get_metrics; time_delta in {0, 1} keeps the rates integral
NetworkGetMetrics(last_io, current_io, time_delta) ==
    LET bytes_sent_rate == IF time_delta > 0
                           THEN (current_io[1] - last_io[1]) \div time_delta ELSE 0
        bytes_recv_rate == IF time_delta > 0
                           THEN (current_io[2] - last_io[2]) \div time_delta ELSE 0
    IN [bytes_sent_rate |-> bytes_sent_rate,
        bytes_recv_rate |-> bytes_recv_rate,
        total_bytes_rate |-> bytes_sent_rate + bytes_recv_rate]

\* SensorMonitor.get_metrics
SensorGetMetrics(last_io, current_io, time_delta, memory_percent) ==
    LET read_rate == IF time_delta > 0
                     THEN (current_io[1] - last_io[1]) \div time_delta ELSE 0
        write_rate == IF time_delta > 0
                      THEN (current_io[2] - last_io[2]) \div time_delta ELSE 0
    IN [disk_read_rate |-> read_rate,
        disk_write_rate |-> write_rate,
        memory_percent |-> memory_percent]

\* TimingMonitor.get_metrics, on the interval buffer after the append
TimingGetMetrics(intervals, interval) ==
    [interval |-> interval, jitter |-> Jitter(intervals)]

----------------------------------------------------------------------------
(* echotrace.py *)

\* the weights of the cpu and the network score exchanged
OverallAnomalySwapped(cpu, network, sensor, timing) ==
    cpu * 2 + network * 3 + sensor * 3 + timing * 2

\* overall_anomaly of collect_metrics, in 1/10 Milli
OverallAnomaly(cpu, network, sensor, timing) ==
    cpu * 3 + network * 2 + sensor * 3 + timing * 2

NoResult == [status |-> "none"]

MonitorInit ==
    /\ cpu_history = <<>>
    /\ network_history = <<>>
    /\ sensor_history = <<>>
    /\ timing_history = <<>>
    /\ update_intervals = <<>>
    /\ last_net_io = <<0, 0>>
    /\ last_disk_io = <<0, 0>>
    /\ combined = NoResult
    /\ spikes = 0

\* EchoTrace.__init__ with its default arguments; run has not been called
Constructed ==
    /\ sample_interval = 1
    /\ sound_duration = 100
    /\ running = FALSE
    /\ sample_count = 0
    /\ sound_history = <<>>
    /\ run_duration = <<>>
    /\ output_file = <<>>
    /\ pc = "idle"
    /\ elapsed = 0
    /\ error = "none"
    /\ interrupted = FALSE
    /\ exit_code = <<>>
    /\ before_run = [runs |-> 0, sample_count |-> 0, sound_history |-> <<>>]

\* a fresh EchoTrace: empty monitors, no sound engine call pending
Init ==
    /\ MonitorInit
    /\ Constructed
    /\ call = [op |-> "none"]
    /\ sound = [status |-> "none"]
    /\ rng = 0
    /\ wav = [status |-> "none"]

\* how many of the readings of one tick are not nominal
SpikeCount(cpu, net, dt, mem, disk, ival) ==
      (IF cpu = CpuNominal THEN 0 ELSE 1)
    + (IF net = NetIoNominal THEN 0 ELSE 1)
    + (IF dt = TimeDeltaNominal THEN 0 ELSE 1)
    + (IF mem = MemoryNominal THEN 0 ELSE 1)
    + (IF disk = DiskIoNominal THEN 0 ELSE 1)
    + (IF ival = IntervalNominal THEN 0 ELSE 1)

\* EchoTrace.collect_metrics with the telemetry read during the call
CollectMetricsWith(cpu, net, dt, mem, disk, ival) ==
    LET cpu_metrics == CPUGetMetrics(cpu)
        current_net_io == <<last_net_io[1] + net[1], last_net_io[2] + net[2]>>
        network_metrics == NetworkGetMetrics(last_net_io, current_net_io, dt)
        current_disk_io == <<last_disk_io[1] + disk[1], last_disk_io[2] + disk[2]>>
        sensor_metrics == SensorGetMetrics(last_disk_io, current_disk_io, dt, mem)
        intervals == DequeAppend(update_intervals, ival, IntervalsMaxLen)
        timing_metrics == TimingGetMetrics(intervals, ival)
        cpu_h == BaseUpdate(cpu_history, cpu_metrics)
        network_h == BaseUpdate(network_history, network_metrics)
        sensor_h == BaseUpdate(sensor_history, sensor_metrics)
        timing_h == BaseUpdate(timing_history, timing_metrics)
    IN /\ cpu_history' = cpu_h
       /\ network_history' = network_h
       /\ sensor_history' = sensor_h
       /\ timing_history' = timing_h
       /\ update_intervals' = intervals
       /\ last_net_io' = current_net_io
       /\ last_disk_io' = current_disk_io
       /\ combined' =
            IF NetworkScoreRaises(network_h)
            THEN [status |-> "raised", error |-> "ZeroDivisionError"]
            ELSE LET cpu_anomaly == CPUGetAnomalyScore(cpu_h)
                     network_anomaly == NetworkGetAnomalyScore(network_h)
                     sensor_anomaly == SensorGetAnomalyScore(sensor_h)
                     timing_anomaly == TimingGetAnomalyScore(timing_h)
                 IN [status |-> "returned",
                     cpu_percent |-> cpu_metrics.cpu_percent,
                     network_rate |-> network_metrics.total_bytes_rate,
                     memory_percent |-> sensor_metrics.memory_percent,
                     anomaly_score |-> OverallAnomaly(cpu_anomaly, network_anomaly,
                                                      sensor_anomaly, timing_anomaly),
                     anomalies |-> [cpu |-> cpu_anomaly,
                                    network |-> network_anomaly,
                                    sensor |-> sensor_anomaly,
                                    timing |-> timing_anomaly]]
       /\ spikes' = spikes + SpikeCount(cpu, net, dt, mem, disk, ival)
       /\ UNCHANGED soundVars

\* a tick on which every reading is nominal
CollectMetricsNominal ==
    /\ CollectMetricsWith(CpuNominal, NetIoNominal, TimeDeltaNominal, MemoryNominal,
                          DiskIoNominal, IntervalNominal)
    /\ UNCHANGED runVars

\* a tick on which at least one reading is off its nominal value
CollectMetricsSpike ==
    /\ spikes < MaxSpikes
    /\ \E cpu \in {CpuNominal} \cup CpuSpikes,
       net \in {NetIoNominal} \cup NetIoSpikes,
       dt \in {TimeDeltaNominal} \cup TimeDeltaSpikes,
       mem \in {MemoryNominal} \cup MemorySpikes,
       disk \in {DiskIoNominal} \cup DiskIoSpikes,
       ival \in {IntervalNominal} \cup IntervalSpikes :
        /\ SpikeCount(cpu, net, dt, mem, disk, ival) >= 1
        /\ spikes + SpikeCount(cpu, net, dt, mem, disk, ival) <= MaxSpikes
        /\ CollectMetricsWith(cpu, net, dt, mem, disk, ival)
        /\ UNCHANGED runVars

MonitorNext == CollectMetricsNominal \/ CollectMetricsSpike

MonitorSpec == Init /\ [][MonitorNext]_vars

----------------------------------------------------------------------------
(* Properties of the monitors and of collect_metrics *)

InUnitRange(score) == 0 <= score /\ score <= Milli

\* C1: every family scorer returns a value in [0.0, 1.0] after any sequence
\* of samples (stated for the scores get_anomaly_score returns)
C1_ScoresInUnitRange ==
    /\ InUnitRange(CPUGetAnomalyScore(cpu_history))
    /\ ~NetworkScoreRaises(network_history)
            => InUnitRange(NetworkGetAnomalyScore(network_history))
    /\ InUnitRange(SensorGetAnomalyScore(sensor_history))
    /\ InUnitRange(TimingGetAnomalyScore(timing_history))

\* C2: cold start: a scorer whose history holds fewer than 10 samples
\* returns exactly 0.0, whatever the samples are
C2_ColdStart ==
    /\ Len(cpu_history) < 10 => CPUGetAnomalyScore(cpu_history) = 0
    /\ Len(network_history) < 10 =>
            /\ ~NetworkScoreRaises(network_history)
            /\ NetworkGetAnomalyScore(network_history) = 0
    /\ Len(sensor_history) < 10 => SensorGetAnomalyScore(sensor_history) = 0
    /\ Len(timing_history) < 10 => TimingGetAnomalyScore(timing_history) = 0
    /\ (Len(cpu_history) < 10 /\ combined.status # "none") =>
            /\ combined.status = "returned"
            /\ combined.anomalies = [cpu |-> 0, network |-> 0, sensor |-> 0, timing |-> 0]

\* nine samples, one of them a CPU spike and none scored
C2_Witness ==
    /\ Len(cpu_history) = 9
    /\ \E i \in 1..9 : cpu_history[i].cpu_percent \in CpuSpikes
    /\ combined.status = "returned"
    /\ combined.anomalies.cpu = 0

\* new is old with one entry appended and, at capacity, exactly the oldest
\* entry dropped
AppendedFifo(old, new, capacity) ==
    /\ Len(new) = Min(Len(old) + 1, capacity)
    /\ \A i \in 1..(Len(new) - 1) : new[i] = old[Len(old) - (Len(new) - 1) + i]

\* C3: no history grows beyond its capacity, the interval buffer never
\* beyond 50, and every update appends the new entry and evicts exactly
\* the oldest one on overflow
C3_BoundedFifo ==
    /\ [](/\ Len(cpu_history) <= HistorySize
          /\ Len(network_history) <= HistorySize
          /\ Len(sensor_history) <= HistorySize
          /\ Len(timing_history) <= HistorySize
          /\ Len(update_intervals) <= 50)
    /\ [][/\ AppendedFifo(cpu_history, cpu_history', HistorySize)
          /\ AppendedFifo(network_history, network_history', HistorySize)
          /\ AppendedFifo(sensor_history, sensor_history', HistorySize)
          /\ AppendedFifo(timing_history, timing_history', HistorySize)
          /\ AppendedFifo(update_intervals, update_intervals', 50)
          /\ timing_history'[Len(timing_history')].interval
                 = update_intervals'[Len(update_intervals')]
          /\ combined'.status = "returned" =>
                 /\ cpu_history'[Len(cpu_history')].cpu_percent
                        = combined'.cpu_percent
                 /\ network_history'[Len(network_history')].total_bytes_rate
                        = combined'.network_rate
                 /\ sensor_history'[Len(sensor_history')].memory_percent
                        = combined'.memory_percent]_vars

\* both buffers of the timing monitor are full and the long interval has
\* already been evicted from the interval buffer, while the history still
\* holds the jitter it caused
C3_Witness ==
    /\ Len(update_intervals) = 50
    /\ \A i \in 1..50 : update_intervals[i] = IntervalNominal
    /\ Len(timing_history) = HistorySize
    /\ \E i \in 1..HistorySize : timing_history[i].jitter > 0

\* C5: the overall score is 0.3 cpu + 0.2 network + 0.3 sensor + 0.2 timing
\* and lies in [0, 1] whenever the four family scores do
C5_WeightedSum ==
    combined.status = "returned" =>
        LET a == combined.anomalies
        IN /\ combined.anomaly_score
                  = 3 * a.cpu + 2 * a.network + 3 * a.sensor + 2 * a.timing
           /\ (InUnitRange(a.cpu) /\ InUnitRange(a.network)
                   /\ InUnitRange(a.sensor) /\ InUnitRange(a.timing))
                  => (0 <= combined.anomaly_score
                         /\ combined.anomaly_score <= 10 * Milli)

\* a tick whose cpu, network and sensor scores are all non-zero and differ
C5_Witness ==
    /\ combined.status = "returned"
    /\ combined.anomalies.network > 0
    /\ combined.anomalies.sensor > 0
    /\ combined.anomalies.network # combined.anomalies.cpu
    /\ InUnitRange(combined.anomalies.network)
    /\ combined.anomaly_score > 0

\* the mean of the last 10 values of a history of at least 10 entries is 0
ZeroMean(values) == SeqSum(SubSeq(values, Len(values) - 9, Len(values))) = 0

NetworkRates == [i \in 1..Len(network_history) |->
                    network_history[i].total_bytes_rate]

\* C11: degenerate denominators never raise: with a zero mean of the last 10
\* values the network score and the disk component are 0, and for any other
\* history the division by (mean + 1e-6) is defined and a number is returned
C11_NoDegenerateDenominator ==
    /\ ~NetworkScoreRaises(network_history)
    /\ combined.status # "raised"
    /\ (Len(network_history) >= 10 /\ ZeroMean(NetworkRates))
           => NetworkGetAnomalyScore(network_history) = 0

\* the last 10 entries of a history of at least 10 entries
LastTen(history) == SubSeq(history, Len(history) - 9, Len(history))

\* C17: a score depends only on the 10 most recent entries: a history of at
\* least 10 entries scores as its last 10 entries alone do, whatever the
\* older entries are
C17_LastTenOnly ==
    /\ Len(cpu_history) >= 10 =>
           CPUGetAnomalyScore(cpu_history) = CPUGetAnomalyScore(LastTen(cpu_history))
    /\ Len(network_history) >= 10 =>
           /\ NetworkScoreRaises(network_history)
                  = NetworkScoreRaises(LastTen(network_history))
           /\ ~NetworkScoreRaises(network_history) =>
                  NetworkGetAnomalyScore(network_history)
                     = NetworkGetAnomalyScore(LastTen(network_history))
    /\ Len(sensor_history) >= 10 =>
           SensorGetAnomalyScore(sensor_history)
              = SensorGetAnomalyScore(LastTen(sensor_history))
    /\ Len(timing_history) >= 10 =>
           TimingGetAnomalyScore(timing_history)
              = TimingGetAnomalyScore(LastTen(timing_history))

\* the oldest entry held is a CPU spike that the last 10 entries no longer
\* contain, and the score is that of ten nominal samples
C17_Witness ==
    /\ Len(cpu_history) > 10
    /\ cpu_history[1].cpu_percent \in CpuSpikes
    /\ \A i \in 2..Len(cpu_history) : cpu_history[i].cpu_percent = CpuNominal
    /\ CPUGetAnomalyScore(cpu_history) = 0

\* one update of a monitor: its history grows by exactly one entry, up to
\* its capacity
GrownByOne(old, new) == Len(new) = Min(Len(old) + 1, HistorySize)

\* C19: every collect_metrics call updates each monitor exactly once before
\* the scores are read: the four histories have equal length, one more per
\* call up to the capacity, the scores reported are those of the updated
\* histories, and the combined score is 0.0 while fewer than 10 calls were made
C19_LockStep ==
    /\ [](/\ Len(cpu_history) = Len(network_history)
          /\ Len(cpu_history) = Len(sensor_history)
          /\ Len(cpu_history) = Len(timing_history)
          /\ (combined.status # "none" /\ Len(cpu_history) <= 9) =>
                 /\ combined.status = "returned"
                 /\ combined.anomaly_score = 0)
    /\ [][/\ GrownByOne(cpu_history, cpu_history')
          /\ GrownByOne(network_history, network_history')
          /\ GrownByOne(sensor_history, sensor_history')
          /\ GrownByOne(timing_history, timing_history')
          /\ combined'.status = "returned" =>
                 /\ combined'.anomalies.cpu = CPUGetAnomalyScore(cpu_history')
                 /\ combined'.anomalies.sensor
                        = SensorGetAnomalyScore(sensor_history')
                 /\ combined'.anomalies.timing
                        = TimingGetAnomalyScore(timing_history')]_monitorVars

\* the 10th call: ten samples held and a non-zero combined score
C19_Witness ==
    /\ Len(cpu_history) = 10
    /\ Len(timing_history) = 10
    /\ combined.status = "returned"
    /\ combined.anomaly_score # 0

----------------------------------------------------------------------------
(* sound_engine.py *)
(* Frequencies are in 1/1000 Hz, durations in 1/1000 s, amplitudes, scores  *)
(* and samples in Milli; network_rate is in bytes/s, cpu_percent and        *)
(* memory_percent in whole percent.  A buffer is the sequence of its        *)
(* samples.                                                                 *)

SampleRate == 22050

\* a * b on Milli operands, truncated to the grid
MulMilli(a, b) ==
    LET p == a * b
    IN IF p >= 0 THEN p \div Milli ELSE -((-p) \div Milli)

\* a / b for b > 0, truncated to the grid
TruncDiv(a, b) == IF a >= 0 THEN a \div b ELSE -((-a) \div b)

\* np.sin over one period, tabulated in 16 steps
SinTable == <<0, 383, 707, 924, 1000, 924, 707, 383,
              0, -383, -707, -924, -1000, -924, -707, -383>>

\* np.random.uniform(0, 1), draw number i of the random source, in Milli:
\* a generator of period RngPeriod
RandomUnit(i) == ((i % RngPeriod) * 617) % Milli

\* np.random.uniform(lo, hi), draw number i
Uniform(lo, hi, i) == lo + ((hi - lo) * RandomUnit(i)) \div Milli

\* rounding to the nearest sample count, ties to even
NumSamplesRounded(duration) ==
    LET q == (SampleRate * duration) \div 1000
        r == (SampleRate * duration) % 1000
    IN IF 2 * r > 1000 \/ (2 * r = 1000 /\ q % 2 = 1) THEN q + 1 ELSE q

\* int(self.sample_rate * duration)
NumSamples(duration) == (SampleRate * duration) \div 1000

\* np.sin(2 * np.pi * frequency * t)[k], t = np.linspace(0, duration, n, False)
SinAt(frequency, k, duration, n) ==
    LET whole == (frequency \div 1000) * k * duration
        part == ((frequency % 1000) * k * duration) \div 1000
        cycles == (whole + part) % (1000 * n)
    IN SinTable[(cycles * 16) \div (1000 * n) + 1]

\* int(self.sample_rate * 0.01)
FadeSamples == (SampleRate * 10) \div 1000

\* a fade-in that rises to twice the full level
EnvelopeOvershoot(k, n) ==
    LET fade == FadeSamples
    IN IF n > 2 * fade /\ k < fade THEN (2 * Milli * k) \div (fade - 1)
       ELSE Milli

\* envelope[k] of generate_tone, k counted from 0
EnvelopeAt(k, n) ==
    LET fade == FadeSamples
    IN IF n > 2 * fade
       THEN IF k < fade THEN (Milli * k) \div (fade - 1)
            ELSE IF k >= n - fade
                 THEN Milli - (Milli * (k - (n - fade))) \div (fade - 1)
                 ELSE Milli
       ELSE Milli

\* SoundEngine.generate_tone
GenerateTone(frequency, duration, amplitude) ==
    LET n == NumSamples(duration)
    IN [k \in 1..n |->
           MulMilli(MulMilli(amplitude, SinAt(frequency, k - 1, duration, n)),
                    EnvelopeAt(k - 1, n))]

\* SoundEngine.generate_pulse
GeneratePulse(frequency, pulse_rate, duration, amplitude) ==
    LET n == NumSamples(duration)
    IN [k \in 1..n |->
           LET carrier == SinAt(frequency, k - 1, duration, n)
               pulse == (Milli + SinAt(pulse_rate, k - 1, duration, n)) \div 2
           IN MulMilli(MulMilli(amplitude, carrier), pulse)]

\* SoundEngine.generate_noise, drawing from position r of the random source
GenerateNoise(duration, amplitude, r) ==
    LET n == NumSamples(duration)
    IN [k \in 1..n |-> MulMilli(amplitude, Uniform(-Milli, Milli, r + k - 1))]

RECURSIVE MaxAbsRange(_, _, _)
MaxAbsRange(s, lo, hi) ==
    IF lo = hi THEN Abs(s[lo])
    ELSE LET mid == (lo + hi) \div 2
             left == MaxAbsRange(s, lo, mid)
             right == MaxAbsRange(s, mid + 1, hi)
         IN IF left >= right THEN left ELSE right

\* np.max(np.abs(s)) of a non-empty buffer
MaxAbs(s) == MaxAbsRange(s, 1, Len(s))

\* base_freq of metrics_to_sound
BaseFreq(cpu_percent) == 200000 + cpu_percent * 6000

\* pulse_rate of metrics_to_sound
PulseRate(network_rate) ==
    LET network_normalized == Min(network_rate \div 10000, Milli)
    IN 1000 + network_normalized * 9

\* amplitude of metrics_to_sound
Amplitude(memory_percent) == 100 + memory_percent * 4

\* the network test with the bound included
TakesPulsePathInclusive(network_rate) == network_rate >= 100

\* the network test of metrics_to_sound
TakesPulsePath(network_rate) == network_rate > 100

\* the dissonance test with the bound included
AddsDissonanceInclusive(anomaly_score) == anomaly_score >= 300

\* the dissonance test of metrics_to_sound
AddsDissonance(anomaly_score) == anomaly_score > 300

\* the noise test of metrics_to_sound
AddsNoise(anomaly_score) == anomaly_score > 600

\* the peak normalisation of metrics_to_sound, on a non-empty buffer
Normalize(mixed) ==
    LET max_val == MaxAbs(mixed)
    IN IF max_val > Milli
       THEN [k \in 1..Len(mixed) |-> TruncDiv(mixed[k] * Milli, max_val)]
       ELSE mixed

\* SoundEngine.metrics_to_sound, drawing from position r of the random source
MetricsToSound(metrics, duration, r) ==
    LET base_freq == BaseFreq(metrics.cpu_percent)
        pulse_rate == PulseRate(metrics.network_rate)
        amplitude == Amplitude(metrics.memory_percent)
        anomaly_score == metrics.anomaly_score
        n == NumSamples(duration)
        base == IF TakesPulsePath(metrics.network_rate)
                THEN GeneratePulse(base_freq, pulse_rate, duration, amplitude)
                ELSE GenerateTone(base_freq, duration, amplitude)
        dissonant_freq == (base_freq * 1414) \div 1000
        dissonance == GenerateTone(dissonant_freq, duration,
                                   MulMilli(MulMilli(amplitude, anomaly_score), 500))
        noise == GenerateNoise(duration,
                               MulMilli(MulMilli(amplitude, anomaly_score), 300), r)
        mixed == [k \in 1..n |->
                     base[k]
                     + (IF AddsDissonance(anomaly_score) THEN dissonance[k] ELSE 0)
                     + (IF AddsNoise(anomaly_score) THEN noise[k] ELSE 0)]
        draws == IF AddsNoise(anomaly_score) THEN n ELSE 0
    IN IF n = 0
       THEN \* np.max of an empty array
            [status |-> "raised", error |-> "ValueError", draws |-> draws]
       ELSE [status |-> "returned",
             buffer |-> Normalize(mixed),
             base_freq |-> base_freq,
             base |-> IF TakesPulsePath(metrics.network_rate) THEN "pulse" ELSE "tone",
             dissonance |-> AddsDissonance(anomaly_score),
             noise |-> AddsNoise(anomaly_score),
             draws |-> draws]

RECURSIVE RenderFrom(_, _, _, _)
\* the loop of generate_soundscape from record i on: the sounds list
RenderFrom(metrics_list, i, duration, r) ==
    IF i > Len(metrics_list) THEN [status |-> "returned", sounds |-> <<>>, draws |-> 0]
    ELSE LET first == MetricsToSound(metrics_list[i], duration, r)
         IN IF first.status = "raised"
            THEN [status |-> "raised", error |-> first.error, draws |-> first.draws]
            ELSE LET rest == RenderFrom(metrics_list, i + 1, duration, r + first.draws)
                 IN IF rest.status = "raised"
                    THEN [status |-> "raised", error |-> rest.error,
                          draws |-> first.draws + rest.draws]
                    ELSE [status |-> "returned",
                          sounds |-> <<first.buffer>> \o rest.sounds,
                          draws |-> first.draws + rest.draws]

RECURSIVE Concatenate(_)
\* np.concatenate(sounds)
Concatenate(sounds) ==
    IF sounds = <<>> THEN <<>> ELSE Head(sounds) \o Concatenate(Tail(sounds))

\* the factor of the 16-bit PCM conversion
Int16Scale == 32767

\* the same conversion with the factor 2^15
ToInt16FullScale(s) == TruncDiv(s * 32768, Milli)

\* np.int16(s * 32767): the product truncated towards zero
ToInt16(s) == TruncDiv(s * Int16Scale, Milli)

\* ndarray.tobytes of one int16: two's complement, low byte first
ToBytes(v) == LET u == v % 65536 IN <<u % 256, u \div 256>>

\* SoundEngine.channels
Channels == 1

\* wav_file.setsampwidth(2)
SampleWidth == 2

\* SoundEngine.save_audio: the file's header fields and its data bytes
SaveAudio(audio_data) ==
    [status |-> "written",
     nchannels |-> Channels,
     sampwidth |-> SampleWidth,
     framerate |-> SampleRate,
     data |-> [j \in 1..(SampleWidth * Len(audio_data)) |->
                  ToBytes(ToInt16(audio_data[(j + 1) \div 2]))[2 - (j % 2)]]]

\* SoundEngine.generate_soundscape
GenerateSoundscape(metrics_list, duration_per_sample, r) ==
    IF metrics_list = <<>>
    THEN [status |-> "returned", buffer |-> <<>>, draws |-> 0]
    ELSE LET rendered == RenderFrom(metrics_list, 1, duration_per_sample, r)
         IN IF rendered.status = "raised" THEN rendered
            ELSE [status |-> "returned",
                  buffer |-> Concatenate(rendered.sounds),
                  draws |-> rendered.draws]

\* generate_soundscape's default of 0.1 s, as if the argument were left out
DurationPerSampleLeftOut == 100

\* duration_per_sample handed over by generate_demo_sound
DemoDurationPerSample == 200

\* the healthy records of generate_demo_sound, two draws each from r on
DemoHealthy(r) ==
    [i \in 1..10 |->
        [cpu_percent |-> 30 + Uniform(-5, 5, r + 2 * (i - 1)),
         network_rate |-> 1000000,
         memory_percent |-> 40 + Uniform(-3, 3, r + 2 * (i - 1) + 1),
         anomaly_score |-> 100]]

\* transition records whose progress runs from 0 to 1: progress = (i - 1) / 9
DemoTransitionToEnd(r) ==
    [i \in 1..10 |->
        [cpu_percent |-> 30 + ((i - 1) * 60) \div 9 + Uniform(-10, 10, r + (i - 1)),
         network_rate |-> 1000000 + ((i - 1) * 5000000) \div 9,
         memory_percent |-> 40 + ((i - 1) * 50) \div 9,
         anomaly_score |-> ((i - 1) * 800) \div 9]]

\* the transition records of generate_demo_sound, one draw each from r on;
\* progress = (i - 1) / 10
DemoTransition(r) ==
    [i \in 1..10 |->
        [cpu_percent |-> 30 + (i - 1) * 6 + Uniform(-10, 10, r + (i - 1)),
         network_rate |-> 1000000 + (i - 1) * 500000,
         memory_percent |-> 40 + (i - 1) * 5,
         anomaly_score |-> (i - 1) * 80]]

\* demo_metrics of generate_demo_sound
DemoMetrics(r) == DemoHealthy(r) \o DemoTransition(r + 20)

\* SoundEngine.generate_demo_sound
GenerateDemoSound(r) ==
    LET demo_metrics == DemoMetrics(r)
        result == GenerateSoundscape(demo_metrics, DemoDurationPerSample, r + 30)
    IN IF result.status = "raised"
       THEN [status |-> "raised", error |-> result.error, draws |-> 30 + result.draws]
       ELSE [status |-> "returned",
             buffer |-> result.buffer,
             demo_metrics |-> demo_metrics,
             draws |-> 30 + result.draws]

----------------------------------------------------------------------------
(* Calls of the sound engine *)

ToneFrequencies == {440000, 707000}
ToneDurations == {0, 10, 11, 20, 21}
ToneAmplitudes == {0, 300, 1000}

ToneCalls ==
    {[op |-> "tone", frequency |-> f, duration |-> d, amplitude |-> a] :
        f \in ToneFrequencies, d \in ToneDurations, a \in ToneAmplitudes}

MetricsRecords ==
    [cpu_percent : {0, 50, 100},
     network_rate : {0, 100, 101, 20000000},
     memory_percent : {0, 60, 300},
     anomaly_score : {0, 300, 301, 600, 601, 1000}]

RenderDurations == {0, 2, 21}

\* the record of test_metrics_to_sound, rendered for 0.1 s
ScenarioMetrics ==
    [cpu_percent |-> 50, network_rate |-> 1000000, memory_percent |-> 60,
     anomaly_score |-> 300]

RenderCalls ==
    {[op |-> "metrics_to_sound", metrics |-> m, duration |-> d] :
        m \in MetricsRecords, d \in RenderDurations}
    \cup {[op |-> "metrics_to_sound", metrics |-> ScenarioMetrics, duration |-> 100]}

SoundscapeRecords ==
    {ScenarioMetrics,
     [cpu_percent |-> 30, network_rate |-> 0, memory_percent |-> 40,
      anomaly_score |-> 100],
     [cpu_percent |-> 90, network_rate |-> 6000000, memory_percent |-> 90,
      anomaly_score |-> 800]}

SoundscapeLists ==
    UNION {[1..n -> SoundscapeRecords] : n \in 0..MaxRecords}

SoundscapeDurations == {0, 2, 3}

SoundscapeCalls ==
    {[op |-> "soundscape", metrics_list |-> l, duration |-> d] :
        l \in SoundscapeLists, d \in SoundscapeDurations}

DemoCalls == {[op |-> "demo"]}

SoundInit ==
    /\ MonitorInit
    /\ Constructed
    /\ call \in ToneCalls \cup RenderCalls \cup SoundscapeCalls \cup DemoCalls
    /\ sound = [status |-> "none"]
    /\ rng \in 0..(RngPeriod - 1)
    /\ wav = [status |-> "none"]

\* the random source after the draws of a call
Advance(r, result) == (r + result.draws) % RngPeriod

\* a call of generate_tone
Tone ==
    /\ call.op = "tone"
    /\ sound.status = "none"
    /\ sound' = [status |-> "returned",
                 buffer |-> GenerateTone(call.frequency, call.duration, call.amplitude)]
    /\ UNCHANGED <<monitorVars, call, rng, wav, runVars>>

\* a call of metrics_to_sound
Render ==
    /\ call.op = "metrics_to_sound"
    /\ sound.status = "none"
    /\ sound' = MetricsToSound(call.metrics, call.duration, rng)
    /\ rng' = Advance(rng, sound')
    /\ UNCHANGED <<monitorVars, call, wav, runVars>>

\* a call of generate_soundscape
Soundscape ==
    /\ call.op = "soundscape"
    /\ sound.status = "none"
    /\ sound' = GenerateSoundscape(call.metrics_list, call.duration, rng)
    /\ rng' = Advance(rng, sound')
    /\ UNCHANGED <<monitorVars, call, wav, runVars>>

\* a call of generate_demo_sound
Demo ==
    /\ call.op = "demo"
    /\ sound.status = "none"
    /\ sound' = GenerateDemoSound(rng)
    /\ rng' = Advance(rng, sound')
    /\ UNCHANGED <<monitorVars, call, wav, runVars>>

\* a call of save_audio on the buffer that generate_tone or metrics_to_sound
\* returned
Save ==
    /\ call.op \in {"tone", "metrics_to_sound"}
    /\ sound.status = "returned"
    /\ wav.status = "none"
    /\ wav' = SaveAudio(sound.buffer)
    /\ UNCHANGED <<monitorVars, call, sound, rng, runVars>>

SoundNext == Tone \/ Render \/ Soundscape \/ Demo \/ Save

SoundSpec == SoundInit /\ [][SoundNext]_vars

----------------------------------------------------------------------------
(* echotrace.py, EchoTrace.run, and main of __main__.py.  Times are in     *)
(* units of 0.1 s, sound_duration in ms.  A run reads nominal telemetry    *)
(* except for spikes of the CPU load and of the network counters.          *)

\* sample_interval of the constructor: the default 0.1 s
SampleIntervals == {1}

\* sound_duration of the constructor
SoundDurations == {0, 1}

\* duration of run: None, 0 and 0.2 s
RunDurations == {<<>>, <<0>>, <<2>>}

\* output_file of run: None, the empty string or a file name
OutputFiles == {<<>>, <<"">>, <<"out.wav">>}

\* a fresh EchoTrace and the arguments of the run to come
RunInit ==
    /\ MonitorInit
    /\ sample_interval \in SampleIntervals
    /\ sound_duration \in SoundDurations
    /\ run_duration \in RunDurations
    /\ output_file \in OutputFiles
    /\ running = FALSE
    /\ sample_count = 0
    /\ sound_history = <<>>
    /\ pc = "idle"
    /\ elapsed = 0
    /\ error = "none"
    /\ interrupted = FALSE
    /\ exit_code = <<>>
    /\ before_run = [runs |-> 0, sample_count |-> 0, sound_history |-> <<>>]
    /\ call = [op |-> "none"]
    /\ sound = [status |-> "none"]
    /\ rng = 0
    /\ wav = [status |-> "none"]

\* the truth value Python gives to an optional number: None and 0 are false
Truthy(optional) == optional # <<>> /\ optional[1] # 0

\* an output_file test that any value passes
AnyName(optional) == TRUE

\* the truth value Python gives to an optional string: None and "" are false
TruthyName(optional) == optional # <<>> /\ optional[1] # ""

\* duration and (time.time() - start_time) >= duration
DurationReached ==
    Truthy(run_duration) /\ elapsed >= run_duration[1]

\* the dictionary collect_metrics returns, in the units of the sound engine
RunMetrics(m) ==
    [cpu_percent |-> m.cpu_percent,
     network_rate |-> FloorDiv(m.network_rate, 1000000),
     memory_percent |-> m.memory_percent,
     anomaly_score |-> FloorDiv(m.anomaly_score, 10)]

\* run up to its try statement: the flag, the start time, the signal handler
RunStart ==
    /\ pc = "idle"
    /\ running' = TRUE
    /\ elapsed' = 0
    /\ pc' = "loop"
    /\ before_run' = [runs |-> before_run.runs + 1,
                      sample_count |-> sample_count,
                      sound_history |-> sound_history]
    /\ UNCHANGED <<monitorVars, soundVars, sample_interval, sound_duration,
                   run_duration, output_file, sample_count, sound_history,
                   error, interrupted, exit_code>>

\* signal_handler, called between two steps of run
SignalHandler ==
    /\ pc \in {"loop", "collect", "render", "sleep"}
    /\ ~interrupted
    /\ running' = FALSE
    /\ interrupted' = TRUE
    /\ UNCHANGED <<monitorVars, soundVars, before_run, sample_interval,
                   sound_duration,
                   run_duration, output_file, pc, sample_count, sound_history,
                   elapsed, error, exit_code>>

\* while self.running, and the duration test that breaks out of the loop
LoopCheck ==
    /\ pc = "loop"
    /\ IF ~running \/ DurationReached
       THEN pc' = "finally"
       ELSE /\ sample_count < MaxTicks
            /\ pc' = "collect"
    /\ UNCHANGED <<monitorVars, soundVars, before_run, sample_interval,
                   sound_duration,
                   run_duration, output_file, running, sample_count,
                   sound_history, elapsed, error, interrupted, exit_code>>

\* metrics = self.collect_metrics(); self.sample_count += 1, or the except
\* clause when collect_metrics raises
TickCollect ==
    /\ pc = "collect"
    /\ \E cpu \in {CpuNominal} \cup CpuSpikes, net \in {NetIoNominal} \cup NetIoSpikes :
        /\ spikes + SpikeCount(cpu, net, TimeDeltaNominal, MemoryNominal,
                               DiskIoNominal, IntervalNominal) <= MaxSpikes
        /\ CollectMetricsWith(cpu, net, TimeDeltaNominal, MemoryNominal,
                              DiskIoNominal, IntervalNominal)
    /\ IF combined'.status = "raised"
       THEN /\ error' = combined'.error
            /\ running' = FALSE
            /\ pc' = "finally"
            /\ UNCHANGED sample_count
       ELSE /\ sample_count' = sample_count + 1
            /\ pc' = "render"
            /\ UNCHANGED <<error, running>>
    /\ UNCHANGED <<before_run, sample_interval, sound_duration, run_duration, output_file,
                   sound_history, elapsed, interrupted, exit_code>>

\* sound = metrics_to_sound(metrics, self.sound_duration) and the append to
\* sound_history, or the except clause when metrics_to_sound raises
TickRender ==
    /\ pc = "render"
    /\ sound' = MetricsToSound(RunMetrics(combined), sound_duration, rng)
    /\ rng' = Advance(rng, sound')
    /\ IF sound'.status = "raised"
       THEN /\ error' = sound'.error
            /\ running' = FALSE
            /\ pc' = "finally"
            /\ UNCHANGED sound_history
       ELSE /\ sound_history' = IF TruthyName(output_file)
                                THEN Append(sound_history, sound'.buffer)
                                ELSE sound_history
            /\ pc' = "sleep"
            /\ UNCHANGED <<error, running>>
    /\ UNCHANGED <<monitorVars, call, wav, before_run, sample_interval,
                   sound_duration,
                   run_duration, output_file, sample_count, elapsed, interrupted,
                   exit_code>>

\* time.sleep(self.sample_interval)
TickSleep ==
    /\ pc = "sleep"
    /\ elapsed' = elapsed + sample_interval
    /\ pc' = "loop"
    /\ UNCHANGED <<monitorVars, soundVars, before_run, sample_interval,
                   sound_duration,
                   run_duration, output_file, running, sample_count,
                   sound_history, error, interrupted, exit_code>>

\* a finally clause that saves only after a run without error
RunFinallyUnlessError ==
    /\ pc = "finally"
    /\ wav' = IF TruthyName(output_file) /\ sound_history # <<>> /\ error = "none"
              THEN SaveAudio(Concatenate(sound_history))
              ELSE wav
    /\ pc' = "returned"
    /\ UNCHANGED <<monitorVars, call, sound, rng, before_run, sample_interval,
                   sound_duration,
                   run_duration, output_file, running, sample_count,
                   sound_history, elapsed, error, interrupted, exit_code>>

\* the finally clause: the accumulated audio is concatenated and saved
RunFinally ==
    /\ pc = "finally"
    /\ wav' = IF TruthyName(output_file) /\ sound_history # <<>>
              THEN SaveAudio(Concatenate(sound_history))
              ELSE wav
    /\ pc' = "returned"
    /\ UNCHANGED <<monitorVars, call, sound, rng, before_run, sample_interval,
                   sound_duration,
                   run_duration, output_file, running, sample_count,
                   sound_history, elapsed, error, interrupted, exit_code>>

\* main after echo.run returned: return 0
MainReturn ==
    /\ pc = "returned"
    /\ exit_code' = <<0>>
    /\ pc' = "exited"
    /\ UNCHANGED <<monitorVars, soundVars, before_run, sample_interval,
                   sound_duration,
                   run_duration, output_file, running, sample_count,
                   sound_history, elapsed, error, interrupted>>

\* a further call of run that starts from a zero count and an empty history
RunAgainFromScratch ==
    /\ pc = "returned"
    /\ before_run.runs < MaxRuns
    /\ run_duration' \in RunDurations
    /\ output_file' \in OutputFiles
    /\ running' = TRUE
    /\ elapsed' = 0
    /\ error' = "none"
    /\ interrupted' = FALSE
    /\ pc' = "loop"
    /\ sample_count' = 0
    /\ sound_history' = <<>>
    /\ before_run' = [runs |-> before_run.runs + 1,
                      sample_count |-> 0,
                      sound_history |-> <<>>]
    /\ UNCHANGED <<monitorVars, soundVars, sample_interval, sound_duration,
                   exit_code>>

\* a further call of run on the same EchoTrace, after the previous call
\* returned: the flag, the start time, the signal handler
RunAgain ==
    /\ pc = "returned"
    /\ before_run.runs < MaxRuns
    /\ run_duration' \in RunDurations
    /\ output_file' \in OutputFiles
    /\ running' = TRUE
    /\ elapsed' = 0
    /\ error' = "none"
    /\ interrupted' = FALSE
    /\ pc' = "loop"
    /\ before_run' = [runs |-> before_run.runs + 1,
                      sample_count |-> sample_count,
                      sound_history |-> sound_history]
    /\ UNCHANGED <<monitorVars, soundVars, sample_interval, sound_duration,
                   sample_count, sound_history, exit_code>>

RunNext ==
    \/ RunStart
    \/ SignalHandler
    \/ LoopCheck
    \/ TickCollect
    \/ TickRender
    \/ TickSleep
    \/ RunFinally
    \/ MainReturn

RunSpec == RunInit /\ [][RunNext]_vars

\* several calls of run on one EchoTrace, of MaxRunsTicks ticks together
RunsNext == (RunNext /\ sample_count' <= MaxRunsTicks) \/ RunAgain

RunsSpec == RunInit /\ [][RunsNext]_vars

----------------------------------------------------------------------------
(* Properties of the sound engine *)

PeakWithin(buffer, limit) == \A k \in 1..Len(buffer) : Abs(buffer[k]) <= limit

\* the random source before the call that produced sound
SeedOf == (((rng - sound.draws) % RngPeriod) + RngPeriod) % RngPeriod

\* segment i of a buffer cut into pieces of n samples
Segment(buffer, i, n) == SubSeq(buffer, (i - 1) * n + 1, i * n)

RECURSIVE DrawsBefore(_, _, _, _)
\* the draws metrics_to_sound makes on the records before record i
DrawsBefore(metrics_list, i, duration, r) ==
    IF i = 1 THEN 0
    ELSE LET before == DrawsBefore(metrics_list, i - 1, duration, r)
         IN before + MetricsToSound(metrics_list[i - 1], duration, r + before).draws

\* C4: metrics_to_sound always returns a buffer whose largest absolute
\* sample is <= 1.0, for any non-negative metrics and any duration
C4_RenderPeakBounded ==
    (call.op = "metrics_to_sound" /\ sound.status # "none") =>
        /\ sound.status = "returned"
        /\ PeakWithin(sound.buffer, Milli)

\* C6: generate_soundscape returns an empty buffer for an empty list and
\* otherwise the renders of the records joined in input order, n pieces of
\* the per-record length
C6_SoundscapeConcatenation ==
    (call.op = "soundscape" /\ sound.status # "none") =>
        LET l == call.metrics_list
            d == call.duration
            n == NumSamples(d)
        IN /\ sound.status = "returned"
           /\ l = <<>> => sound.buffer = <<>>
           /\ Len(sound.buffer) = Len(l) * n
           /\ \A i \in 1..Len(l) :
                 LET r == SeedOf + DrawsBefore(l, i, d, SeedOf)
                 IN Segment(sound.buffer, i, n) = MetricsToSound(l[i], d, r).buffer

\* C7 as stated: generate_tone returns round(sample_rate * duration) samples
C7_ToneLengthRounded ==
    (call.op = "tone" /\ sound.status = "returned") =>
        Len(sound.buffer) = NumSamplesRounded(call.duration)

\* C7 amended: generate_tone returns int(sample_rate * duration) samples,
\* the product truncated, not rounded
C7_ToneLengthTruncated ==
    (call.op = "tone" /\ sound.status = "returned") =>
        /\ 1000 * Len(sound.buffer) <= SampleRate * call.duration
        /\ SampleRate * call.duration < 1000 * (Len(sound.buffer) + 1)

\* 11 ms: 242.55 samples, of which 242 are produced
C7_Witness ==
    /\ call.op = "tone"
    /\ sound.status = "returned"
    /\ call.duration = 11
    /\ Len(sound.buffer) = 242

\* C8: no sample of generate_tone exceeds the amplitude: the envelope lies
\* in [0, 1] and is applied only to buffers longer than two fade windows
C8_ToneWithinAmplitude ==
    (call.op = "tone" /\ sound.status = "returned") =>
        LET n == Len(sound.buffer)
        IN /\ PeakWithin(sound.buffer, call.amplitude)
           /\ \A k \in 1..n : 0 <= EnvelopeAt(k - 1, n) /\ EnvelopeAt(k - 1, n) <= Milli
           /\ n <= 2 * 220 =>
                 \A k \in 1..n :
                     sound.buffer[k]
                        = MulMilli(call.amplitude,
                                   SinAt(call.frequency, k - 1, call.duration, n))

\* a tone longer than two fade windows that reaches its amplitude in the
\* middle and is attenuated inside the fade-in
C8_Witness ==
    /\ call.op = "tone"
    /\ sound.status = "returned"
    /\ call.amplitude > 0
    /\ Len(sound.buffer) > 2 * 220
    /\ \E k \in 221..(Len(sound.buffer) - 220) :
          Abs(sound.buffer[k]) = call.amplitude
    /\ \E k \in 1..220 :
          Abs(sound.buffer[k])
             < Abs(MulMilli(call.amplitude,
                            SinAt(call.frequency, k - 1, call.duration,
                                  Len(sound.buffer))))

IsScenario ==
    /\ call.op = "metrics_to_sound"
    /\ call.metrics = ScenarioMetrics
    /\ call.duration = 100
    /\ sound.status # "none"

\* C9 as stated: the scenario record gives 2205 samples at 500 Hz on the
\* pulse path with the dissonant tone, without noise, peak <= 1.0
C9_ScenarioWithDissonance ==
    IsScenario =>
        /\ sound.status = "returned"
        /\ Len(sound.buffer) = 2205
        /\ sound.base_freq = 500000
        /\ sound.base = "pulse"
        /\ sound.dissonance
        /\ ~sound.noise
        /\ PeakWithin(sound.buffer, Milli)

\* C9 amended: the scenario record gives 2205 samples at 500 Hz on the
\* pulse path, without the dissonant tone (0.3 is not above 0.3) and
\* without noise, peak <= 1.0: the buffer is the pulse alone
C9_ScenarioPulseOnly ==
    IsScenario =>
        /\ sound.status = "returned"
        /\ Len(sound.buffer) = 2205
        /\ sound.base_freq = 500000
        /\ sound.base = "pulse"
        /\ ~sound.dissonance
        /\ ~sound.noise
        /\ PeakWithin(sound.buffer, Milli)
        /\ sound.buffer = GeneratePulse(500000, 1900, 100, 340)

C9_Witness ==
    /\ IsScenario
    /\ sound.status = "returned"
    /\ \E k \in 1..Len(sound.buffer) : sound.buffer[k] # 0

\* C10: generate_demo_sound renders 20 records, 10 healthy ones followed by
\* 10 transition ones, as 4410-sample segments joined in that order into
\* 88200 samples, whatever the random draws
C10_DemoLength ==
    (call.op = "demo" /\ sound.status # "none") =>
        /\ sound.status = "returned"
        /\ Len(sound.demo_metrics) = 20
        /\ \A i \in 1..10 :
              /\ sound.demo_metrics[i].anomaly_score = 100
              /\ sound.demo_metrics[i].network_rate = 1000000
        /\ \A i \in 11..20 :
              /\ sound.demo_metrics[i].anomaly_score = (i - 11) * 80
              /\ sound.demo_metrics[i].memory_percent = 40 + (i - 11) * 5
        /\ Len(sound.buffer) = 88200
        /\ \A i \in 1..20 :
              LET r == SeedOf + 30 + DrawsBefore(sound.demo_metrics, i, 200, SeedOf + 30)
              IN Segment(sound.buffer, i, 4410)
                    = MetricsToSound(sound.demo_metrics[i], 200, r).buffer

\* a demo whose healthy records differ by their random draws
C10_Witness ==
    /\ call.op = "demo"
    /\ sound.status = "returned"
    /\ Len(sound.buffer) = 88200
    /\ \E i, j \in 1..10 :
          sound.demo_metrics[i].cpu_percent # sound.demo_metrics[j].cpu_percent

\* the number of frames a reader finds in the file
NumFrames(w) == Len(w.data) \div (w.sampwidth * w.nchannels)

\* the signed 16-bit sample a reader decodes from frame k of a mono file
FrameValue(w, k) ==
    LET u == w.data[2 * k - 1] + 256 * w.data[2 * k]
    IN IF u >= 32768 THEN u - 65536 ELSE u

\* C12: save_audio writes each sample s in [-1, 1] as the integer part of
\* s * 32767, a value in [-32767, 32767], in a mono 16-bit file with one frame
\* per sample; a buffer of n zeros gives a file of n frames that are all zero
C12_SaveAudioEncoding ==
    (wav.status = "written" /\ PeakWithin(sound.buffer, Milli)) =>
        /\ wav.nchannels = 1
        /\ wav.sampwidth = 2
        /\ wav.framerate = SampleRate
        /\ NumFrames(wav) = Len(sound.buffer)
        /\ \A k \in 1..Len(sound.buffer) :
              LET s == sound.buffer[k]
                  v == FrameValue(wav, k)
              IN /\ v \in -32767..32767
                 /\ s >= 0 => (v >= 0 /\ v * Milli <= s * 32767
                                      /\ (v + 1) * Milli > s * 32767)
                 /\ s <= 0 => (v <= 0 /\ v * Milli >= s * 32767
                                      /\ (v - 1) * Milli < s * 32767)

\* a silent tone of n > 0 samples was saved into n zero frames, and a tone
\* reaching full scale into frames that reach 32767
C12_Witness ==
    /\ wav.status = "written"
    /\ call.op = "tone"
    /\ Len(sound.buffer) > 0
    /\ NumFrames(wav) = Len(sound.buffer)
    /\ \/ /\ call.amplitude = 0
          /\ \A k \in 1..NumFrames(wav) : FrameValue(wav, k) = 0
       \/ \E k \in 1..NumFrames(wav) :
             sound.buffer[k] = Milli /\ FrameValue(wav, k) = 32767

\* the components the thresholds select for a record, summed sample by sample
\* before the peak normalisation
SelectedMix(metrics, d, r) ==
    LET f == BaseFreq(metrics.cpu_percent)
        amp == Amplitude(metrics.memory_percent)
        a == metrics.anomaly_score
        base == IF metrics.network_rate > 100
                THEN GeneratePulse(f, PulseRate(metrics.network_rate), d, amp)
                ELSE GenerateTone(f, d, amp)
        tritone == GenerateTone((f * 1414) \div 1000, d,
                                MulMilli(MulMilli(amp, a), 500))
        hiss == GenerateNoise(d, MulMilli(MulMilli(amp, a), 300), r)
    IN [k \in 1..NumSamples(d) |->
           base[k] + (IF a > 300 THEN tritone[k] ELSE 0)
                   + (IF a > 600 THEN hiss[k] ELSE 0)]

\* C16: render selects its components by strict thresholds: the base is a
\* pulse train exactly when network_rate > 100 and a plain tone otherwise; the
\* dissonant tone (base frequency times 1.414, the code's value of sqrt(2),
\* at amplitude * anomaly * 0.5) is added exactly when anomaly > 0.3, the noise
\* (amplitude * anomaly * 0.3) exactly when anomaly > 0.6, so never without
\* the dissonant tone
C16_StrictThresholds ==
    (call.op = "metrics_to_sound" /\ sound.status = "returned") =>
        /\ (sound.base = "pulse") = (call.metrics.network_rate > 100)
        /\ (sound.base = "tone") = (call.metrics.network_rate <= 100)
        /\ sound.dissonance = (call.metrics.anomaly_score > 300)
        /\ sound.noise = (call.metrics.anomaly_score > 600)
        /\ sound.noise => sound.dissonance
        /\ sound.draws = (IF call.metrics.anomaly_score > 600
                          THEN Len(sound.buffer) ELSE 0)
        /\ sound.buffer
              = Normalize(SelectedMix(call.metrics, call.duration, SeedOf))

\* a record at network_rate 100 and anomaly 0.6 rendered as a plain tone with
\* the dissonant tone and without noise
C16_Witness ==
    /\ call.op = "metrics_to_sound"
    /\ call.metrics.network_rate = 100
    /\ call.metrics.anomaly_score = 600
    /\ sound.status = "returned"
    /\ sound.base = "tone"
    /\ sound.dissonance
    /\ ~sound.noise

\* the first transition record of the demo: progress 0
FirstTransitionRecord ==
    /\ sound.demo_metrics[11].anomaly_score = 0
    /\ sound.demo_metrics[11].network_rate = 1000000
    /\ sound.demo_metrics[11].memory_percent = 40
    /\ sound.demo_metrics[11].cpu_percent \in 20..40

\* C18 as stated: the transition starts at anomaly 0, network multiplier 1 and
\* memory 40% and its last record reaches anomaly 0.8, network multiplier 6,
\* memory 90% and a cpu centre of 90%
C18_TransitionReachesEnd ==
    (call.op = "demo" /\ sound.status = "returned") =>
        /\ FirstTransitionRecord
        /\ sound.demo_metrics[20].anomaly_score = 800
        /\ sound.demo_metrics[20].network_rate = 6000000
        /\ sound.demo_metrics[20].memory_percent = 90
        /\ sound.demo_metrics[20].cpu_percent \in 80..100

\* C18: the transition starts at anomaly 0, network multiplier 1 and memory 40%
\* and moves by a tenth of the way per record, so that its last record, at
\* progress 0.9, has anomaly 0.72, network multiplier 5.5, memory 85% and a
\* cpu centre of 84%
C18_TransitionStopsShort ==
    (call.op = "demo" /\ sound.status = "returned") =>
        /\ FirstTransitionRecord
        /\ \A i \in 11..20 :
              /\ sound.demo_metrics[i].anomaly_score = (i - 11) * 80
              /\ sound.demo_metrics[i].network_rate = 1000000 + (i - 11) * 500000
              /\ sound.demo_metrics[i].memory_percent = 40 + (i - 11) * 5
              /\ sound.demo_metrics[i].cpu_percent - (30 + (i - 11) * 6) \in -10..10
        /\ sound.demo_metrics[20].anomaly_score = 720
        /\ sound.demo_metrics[20].network_rate = 5500000
        /\ sound.demo_metrics[20].memory_percent = 85
        /\ sound.demo_metrics[20].cpu_percent \in 74..94

\* a demo was generated: its last record is at anomaly 0.72 and memory 85%
C18_Witness ==
    /\ call.op = "demo"
    /\ sound.status = "returned"
    /\ Len(sound.demo_metrics) = 20
    /\ sound.demo_metrics[20].anomaly_score = 720
    /\ sound.demo_metrics[20].memory_percent = 85

----------------------------------------------------------------------------
(* Properties of run *)

\* run was given the name of an output file
WithOutputFile == output_file # <<>> /\ output_file # <<"">>

\* run has left its loop
LoopEnded == pc \in {"finally", "returned", "exited"}

\* run has gone through its finally clause
RunReturned == pc \in {"returned", "exited"}

\* the file holds the concatenation of sound_history
SavedHistory == wav = SaveAudio(Concatenate(sound_history))

\* C13: an interrupt acts only between ticks: the handler only clears the
\* running flag; the tick in progress completes (metrics collected, sample
\* counted, waveform rendered and, with an output file, appended), no further
\* tick starts, and the accumulated audio is then saved
C13_InterruptBetweenTicks ==
    /\ [][interrupted' # interrupted =>
             /\ running' = FALSE
             /\ UNCHANGED <<monitorVars, soundVars, before_run, sample_interval,
                            sound_duration, run_duration, output_file, pc,
                            sample_count, sound_history, elapsed, error,
                            exit_code>>]_vars
    /\ [][(interrupted /\ pc = "collect") =>
             /\ pc' = "render"
             /\ combined'.status = "returned"
             /\ sample_count' = sample_count + 1]_vars
    /\ [][(interrupted /\ pc = "render") =>
             /\ pc' = "sleep"
             /\ sound'.status = "returned"
             /\ WithOutputFile =>
                   sound_history' = Append(sound_history, sound'.buffer)]_vars
    /\ [][(interrupted /\ pc = "sleep") => pc' = "loop"]_vars
    /\ [][(interrupted /\ pc = "loop") => pc' = "finally"]_vars
    /\ []((interrupted /\ RunReturned /\ WithOutputFile
              /\ sound_history # <<>>) => SavedHistory)

\* C14: no error of a tick leaves run: an exception of collect_metrics or of
\* metrics_to_sound is caught, running becomes False and the loop ends; the
\* audio accumulated before the failing tick is saved when an output file was
\* asked for and a buffer exists; the command line returns exit code 0
C14_TickErrorsCaught ==
    /\ [][((pc = "collect" /\ combined'.status = "raised")
              \/ (pc = "render" /\ sound'.status = "raised")) =>
             /\ error' \in {"ZeroDivisionError", "ValueError"}
             /\ running' = FALSE
             /\ pc' = "finally"
             /\ sound_history' = sound_history]_vars
    /\ [](error # "none" =>
             /\ ~running
             /\ LoopEnded
             /\ WithOutputFile =>
                   Len(sound_history) \in {sample_count - 1, sample_count}
             /\ (RunReturned /\ WithOutputFile /\ sound_history # <<>>)
                   => SavedHistory
             /\ (RunReturned /\ ~(WithOutputFile /\ sound_history # <<>>))
                   => wav.status = "none")
    /\ [](pc = "exited" => exit_code = <<0>>)
    /\ [](exit_code # <<>> => exit_code = <<0>>)

\* a tick failed after earlier ticks had appended their buffers: the file
\* holds them and main returned 0
C14_Witness ==
    /\ error = "ZeroDivisionError"
    /\ pc = "exited"
    /\ exit_code = <<0>>
    /\ sound_history # <<>>
    /\ wav.status = "written"
    /\ NumFrames(wav) = Len(Concatenate(sound_history))
    /\ NumFrames(wav) > 0

\* C15: a run with a duration that is not None leaves its loop at the first
\* loop check at which the elapsed time has reached the duration: no tick is
\* entered with the duration reached, and only duration = None runs on
C15_DurationEndsRun ==
    (run_duration # <<>> /\ pc \in {"collect", "render"}) =>
        elapsed < run_duration[1]

\* C20: with an output file, at every loop check and when the run ends by
\* duration or interrupt, sound_history holds one buffer per counted tick, in
\* tick order, and the saved file is their concatenation; without an output
\* file sound_history stays as it was while sample_count grows by one per tick
C20_HistoryMatchesCount ==
    /\ []((WithOutputFile
              /\ (pc = "loop" \/ (LoopEnded /\ error = "none"))) =>
             Len(sound_history) = sample_count)
    /\ []((WithOutputFile /\ RunReturned /\ error = "none"
              /\ sample_count > 0) => SavedHistory)
    /\ [][(pc = "render" /\ pc' = "sleep" /\ WithOutputFile) =>
             sound_history' =
                Append(sound_history,
                       MetricsToSound(RunMetrics(combined), sound_duration,
                                      rng).buffer)]_vars
    /\ [](~WithOutputFile => (sound_history = <<>> /\ wav.status = "none"))
    /\ [][~WithOutputFile => sound_history' = sound_history]_vars
    /\ [][pc = "collect" /\ pc' = "render" => sample_count' = sample_count + 1]_vars
    /\ [][sample_count' # sample_count => (pc = "collect" /\ pc' = "render")]_vars

\* an interrupted run with an output file returned after three ticks and
\* saved three buffers
C20_Witness ==
    /\ WithOutputFile
    /\ RunReturned
    /\ error = "none"
    /\ interrupted
    /\ sample_count = 3
    /\ Len(sound_history) = 3
    /\ SavedHistory
    /\ NumFrames(wav) = 3 * NumSamples(sound_duration)
    /\ NumFrames(wav) > 0

\* the buffers of sound_history that the current run appended
OwnBuffers ==
    SubSeq(sound_history, Len(before_run.sound_history) + 1, Len(sound_history))

\* C21: run never removes or resets accumulated state: over the run calls
\* made on one EchoTrace, sample_count and the length of sound_history never
\* decrease and the entries of sound_history never change, so the file saved
\* by a later run with an output file holds the buffers of the earlier runs
\* followed by its own
C21_StateAccumulates ==
    /\ [][/\ sample_count' >= sample_count
          /\ Len(sound_history') >= Len(sound_history)
          /\ SubSeq(sound_history', 1, Len(sound_history)) = sound_history]_vars
    /\ [](/\ sample_count >= before_run.sample_count
          /\ Len(sound_history) >= Len(before_run.sound_history)
          /\ SubSeq(sound_history, 1, Len(before_run.sound_history))
                = before_run.sound_history)
    /\ []((RunReturned /\ WithOutputFile /\ sound_history # <<>>) =>
             wav = SaveAudio(Concatenate(before_run.sound_history)
                             \o Concatenate(OwnBuffers)))

\* a second run with an output file returned: its file starts with the
\* buffers the first run left and ends with the buffers it appended itself
C21_Witness ==
    /\ before_run.runs = 2
    /\ RunReturned
    /\ WithOutputFile
    /\ before_run.sound_history # <<>>
    /\ OwnBuffers # <<>>
    /\ before_run.sound_history[1] # OwnBuffers[1]
    /\ before_run.sample_count > 0
    /\ sample_count > before_run.sample_count
    /\ wav.status = "written"
    /\ NumFrames(wav) = Len(Concatenate(before_run.sound_history))
                           + Len(Concatenate(OwnBuffers))

====
